---- MODULE Spec2Model ----
(***************************************************************************)
(* Model of the document-verify service: the POST /api/verify handler in   *)
(* its two variants (src/server.js and src/unnamed/part_000), the multer   *)
(* upload layer in front of it, and the two external engines it awaits.    *)
(*                                                                         *)
(* Representation choices:                                                 *)
(*   - JS null / undefined are the strings Null / Undefined;               *)
(*   - instants are whole hours since 2023-12-31T00:00Z;                   *)
(*   - the engine's similarity (a float in [0,1]) is a fixed-point integer *)
(*     with Scale units per 1.0; no value of SimValues is a rounding tie   *)
(*     of toFixed(2);                                                      *)
(*   - a stored file is its path <<request, field, index>>.                *)
(***************************************************************************)
EXTENDS Integers, Sequences, FiniteSets, TLC

VARIABLES
    variant,          \* which source file is deployed
    tz,               \* the process's time-zone offset from UTC, in hours
    reqNo,            \* number of the current request
    pc,               \* position of the current request
    files,            \* req.files
    disk,             \* paths existing under uploads/
    cleanupList,      \* handler local
    selfieBase64,     \* handler local
    docResponse,      \* handler local: the document engine's response
    now,              \* the wall clock, as new Date() reads it
    docData,          \* handler local
    overallStatus,    \* handler local
    docErrors,        \* handler local
    isDocumentValid,  \* handler local
    similarity,       \* handler local
    caught,           \* the error the catch block received
    response,         \* what res has sent
    docCalls,         \* docApi.process calls made for this request
    matchCalls        \* faceSdk.matchApi.match calls made for this request

vars == <<variant, tz, reqNo, pc, files, disk, cleanupList, selfieBase64,
          docResponse, now, docData, overallStatus, docErrors,
          isDocumentValid, similarity, caught, response, docCalls, matchCalls>>

(***************************************************************************)
(* Bounds                                                                  *)
(***************************************************************************)
MaxFiles == 2       \* files a client sends under one field name
MaxRequests == 2    \* requests served in one behaviour

(***************************************************************************)
(* JS values                                                               *)
(***************************************************************************)
Null == "<null>"
Undefined == "<undefined>"
NaN == 0 - 1

Truthy(v) == v # Null /\ v # Undefined /\ v # ""

\* a || b
Or(a, b) == IF Truthy(a) THEN a ELSE b

BlankStrings == {"", " "}

\* String.prototype.trim over the strings of the model
Trim(s) == IF s \in BlankStrings THEN "" ELSE s

\* Buffer.toString('base64'): the empty buffer encodes to the empty string
Base64(data) == IF data = "" THEN "" ELSE "base64:" \o data

(***************************************************************************)
(* Inputs                                                                  *)
(***************************************************************************)
Variants == {"server.js", "part_000"}
TimeZones == {0 - 5, 0}
ClockReadings == {36}            \* 2024-01-01T12:00Z

Fields == {"passport", "selfie"}
EmptyFile == ""
FileContents == {EmptyFile, "img"}

\* what a client sends under one field: nothing, one file (possibly of
\* zero bytes), or MaxFiles non-empty files
FieldUploads ==
    {<<>>} \cup {<<c>> : c \in FileContents} \cup {[i \in 1..MaxFiles |-> "img"]}

DocumentNames == {Undefined, "", " ", "PASSPORT"}
NumberValues == {Null, "", "P123"}
NameValues == {Null, "DOE"}
ExpiryValues == {Null, "", "2023-12-31", "2024-01-01", "2024-01-02", "n/a"}
Statuses == {"OK", "WARN", "ERROR"}
Portraits == {
    [field |-> FALSE, visual |-> Undefined, rfid |-> Undefined],
    [field |-> TRUE,  visual |-> Undefined, rfid |-> Undefined],
    [field |-> TRUE,  visual |-> "visual",  rfid |-> Undefined],
    [field |-> TRUE,  visual |-> Undefined, rfid |-> "rfid"] }

DocResponses ==
    [DocumentName : DocumentNames, number : NumberValues, name : NameValues,
     dob : {Null}, expiry : ExpiryValues, overallStatus : Statuses,
     portrait : Portraits]

EngineErrorMessages == {"connect ECONNREFUSED"}

Scale == 10 ^ 5
SimValues == {40000, 74996, 75000, 75004, 75006, 92300}
\* a match response without a results list, with an empty one, or with one result
MatchResponses ==
    {[hasResults |-> FALSE, results |-> <<>>], [hasResults |-> TRUE, results |-> <<>>]}
        \cup {[hasResults |-> TRUE, results |-> <<[similarity |-> s]>>] : s \in SimValues}

(***************************************************************************)
(* Initial values of the handler's locals                                  *)
(***************************************************************************)
NoFiles == [passport |-> <<>>, selfie |-> <<>>]
NoDocResponse == [none |-> TRUE]
NoDocData == [none |-> TRUE]
NoError == [origin |-> "none", message |-> ""]
NoResponse == [status |-> 0, body |-> [none |-> TRUE]]

Init ==
    /\ variant \in Variants
    /\ tz \in TimeZones
    /\ reqNo = 1
    /\ pc = "idle"
    /\ files = NoFiles
    /\ disk = {}
    /\ cleanupList = <<>>
    /\ selfieBase64 = Undefined
    /\ docResponse = NoDocResponse
    /\ now \in ClockReadings
    /\ docData = NoDocData
    /\ overallStatus = Undefined
    /\ docErrors = <<>>
    /\ isDocumentValid = FALSE
    /\ similarity = NaN
    /\ caught = NoError
    /\ response = NoResponse
    /\ docCalls = 0
    /\ matchCalls = 0

(***************************************************************************)
(* multer({ dest: 'uploads/' }).fields([passport, selfie])                 *)
(***************************************************************************)
StoredFiles(field, contents) ==
    [i \in 1..Len(contents) |->
        [path |-> <<reqNo, field, i>>, content |-> contents[i]]]

Paths(fs) == {fs[i].path : i \in 1..Len(fs)}

upload ==
    /\ pc = "idle"
    /\ \E p \in FieldUploads, s \in FieldUploads :
        /\ files' = [passport |-> StoredFiles("passport", p),
                     selfie   |-> StoredFiles("selfie", s)]
        /\ disk' = disk \cup Paths(files'.passport) \cup Paths(files'.selfie)
    /\ pc' = "uploaded"
    /\ UNCHANGED <<variant, tz, reqNo, cleanupList, selfieBase64, docResponse,
                   now, docData, overallStatus, docErrors, isDocumentValid,
                   similarity, caught, response, docCalls, matchCalls>>

(***************************************************************************)
(* cleanupFiles                                                            *)
(***************************************************************************)
cleanupFiles(d, list) == d \ {list[i] : i \in 1..Len(list)}

\* cleanupList as built at the top of the handler
CleanupListOf(fs) ==
    (IF Len(fs.passport) > 0 THEN <<fs.passport[1].path>> ELSE <<>>)
        \o (IF Len(fs.selfie) > 0 THEN <<fs.selfie[1].path>> ELSE <<>>)

\* !passport || !selfie : multer creates a field's array with its first file
MissingInput(fs) == Len(fs.passport) = 0 \/ Len(fs.selfie) = 0

InputErrorBody == [error |-> "Passport and selfie files are required"]

\* catch (error) { res.status(500).json({ success: false, error: error.message }) }
catchResponse(error) ==
    [status |-> 500, body |-> [success |-> FALSE, error |-> error.message]]

(***************************************************************************)
(* The handler from its entry to the first await                           *)
(***************************************************************************)
verify ==
    /\ pc = "uploaded"
    /\ cleanupList' = CleanupListOf(files)
    /\ IF MissingInput(files)
       THEN /\ disk' = cleanupFiles(disk, cleanupList')
            /\ response' = [status |-> 400, body |-> InputErrorBody]
            /\ pc' = "done"
            /\ UNCHANGED <<selfieBase64, docCalls>>
       ELSE /\ selfieBase64' = Base64(files.selfie[1].content)
            /\ docCalls' = docCalls + 1
            /\ pc' = "awaitDoc"
            /\ UNCHANGED <<disk, response>>
    /\ UNCHANGED <<variant, tz, reqNo, files, docResponse, now, docData,
                   overallStatus, docErrors, isDocumentValid, similarity,
                   caught, matchCalls>>

\* await docApi.process(...) rejects
docProcessFails ==
    /\ pc = "awaitDoc"
    /\ \E m \in EngineErrorMessages :
        /\ caught' = [origin |-> "docEngine", message |-> m]
        /\ response' = catchResponse(caught')
    /\ disk' = cleanupFiles(disk, cleanupList)
    /\ pc' = "done"
    /\ UNCHANGED <<variant, tz, reqNo, files, cleanupList, selfieBase64,
                   docResponse, now, docData, overallStatus, docErrors,
                   isDocumentValid, similarity, docCalls, matchCalls>>

(***************************************************************************)
(* Reading the document engine's response                                  *)
(***************************************************************************)
\* const field = docResponse.text?.getField(type); field ? field.value : null
getFieldVal(resp, type) == resp[type]

\* docResponse.documentType()?.DocumentName || 'UNKNOWN'
docTypeServer(resp) == Or(resp.DocumentName, "UNKNOWN")

\* if (!docType || docType.trim() === '') docType = 'UNKNOWN'
docTypePart000(resp) ==
    IF ~Truthy(resp.DocumentName) \/ Trim(resp.DocumentName) = ""
    THEN "UNKNOWN" ELSE resp.DocumentName

docDataServer(resp) ==
    [number |-> getFieldVal(resp, "number"),
     name   |-> getFieldVal(resp, "name"),
     dob    |-> getFieldVal(resp, "dob"),
     type   |-> docTypeServer(resp)]

docDataPart000(resp) ==
    [number |-> getFieldVal(resp, "number"),
     name   |-> getFieldVal(resp, "name"),
     dob    |-> getFieldVal(resp, "dob"),
     expiry |-> getFieldVal(resp, "expiry"),
     type   |-> docTypePart000(resp)]

(***************************************************************************)
(* Dates                                                                   *)
(***************************************************************************)
\* new Date(string): a date-only ISO string is midnight UTC of that day,
\* anything else in the model is an Invalid Date
DateParse(s) ==
    CASE s = "2023-12-31" -> 0
      [] s = "2024-01-01" -> 24
      [] s = "2024-01-02" -> 48
      [] OTHER -> NaN

\* today.setHours(0,0,0,0): midnight of the local day, as an instant
LocalMidnight(t, zone) == ((t + zone) \div 24) * 24 - zone

\* a < b on Dates; any comparison with an Invalid Date is false
DateLess(a, b) == a # NaN /\ b # NaN /\ a < b

(***************************************************************************)
(* The validation rules                                                    *)
(***************************************************************************)
ErrStatusServer == "Overall status is ERROR"
ErrUnknownServer == "Unknown document type (Not recognized)"
ErrNoTextServer == "No text data extracted (Blurry or blank image)"

docErrorsServer(data, status) ==
    (IF status = "ERROR" THEN <<ErrStatusServer>> ELSE <<>>)
        \o (IF data.type = "UNKNOWN" \/ ~Truthy(data.type)
            THEN <<ErrUnknownServer>> ELSE <<>>)
        \o (IF ~Truthy(data.number) /\ ~Truthy(data.name)
            THEN <<ErrNoTextServer>> ELSE <<>>)

isDocumentValidServer(data, status) ==
    /\ status # "ERROR"
    /\ data.type # "UNKNOWN"
    /\ (data.number # Null \/ data.name # Null)

ErrUnknownPart000 == "Document type NOT recognized (Unknown document)"
ErrStatusPart000 == "Critical Error: Document validation failed"
ErrExpiredPart000(expiry) == "Document is EXPIRED (Valid until: " \o expiry \o ")"
ErrNoExpiryPart000 == "No expiry date found on unknown document"
ErrNoTextPart000 == "No text data extracted (Image too blurry or empty)"

expiryErrorsPart000(data, t, zone) ==
    IF Truthy(data.expiry)
    THEN IF DateLess(DateParse(data.expiry), LocalMidnight(t, zone))
         THEN <<ErrExpiredPart000(data.expiry)>> ELSE <<>>
    ELSE IF data.type = "UNKNOWN" THEN <<ErrNoExpiryPart000>> ELSE <<>>

docErrorsPart000(data, status, t, zone) ==
    (IF data.type = "UNKNOWN" THEN <<ErrUnknownPart000>> ELSE <<>>)
        \o (IF status = "ERROR" THEN <<ErrStatusPart000>> ELSE <<>>)
        \o expiryErrorsPart000(data, t, zone)
        \o (IF ~Truthy(data.number) /\ ~Truthy(data.name)
            THEN <<ErrNoTextPart000>> ELSE <<>>)

isDocumentValidPart000(errors) == Len(errors) = 0

(***************************************************************************)
(* Portrait extraction                                                     *)
(***************************************************************************)
\* portraitField.getValue(Source.VISUAL) || portraitField.getValue(Source.RFID)
portraitDataArray(portrait) == Or(portrait.visual, portrait.rfid)

ErrPortraitServer == "Portrait not found in document"
ErrBufferFrom == "The first argument must be of type string or an instance of Buffer, ArrayBuffer, or Array or an Array-like Object. Received undefined"

\* docFaceBase64 of part_000: null unless the field and its data exist
docFaceBase64Part000(portrait) ==
    IF portrait.field /\ Truthy(portraitDataArray(portrait))
    THEN Base64(portraitDataArray(portrait)) ELSE Null

\* the report part_000 sends when there is no portrait
noFaceReport(valid, errors, data) ==
    [success |-> FALSE,
     verificationStatus |-> "REJECTED",
     checks |-> [faceMatch |-> [passed |-> FALSE, error |-> "No face in document"],
                 documentValidation |->
                     [passed |-> valid, errors |-> errors \o <<"No face found">>]],
     data |-> data]

(***************************************************************************)
(* The handler from the document engine's answer to the next await or to   *)
(* its end (catch and finally included)                                    *)
(***************************************************************************)
docProcessReturnsServer ==
    /\ pc = "awaitDoc"
    /\ variant = "server.js"
    /\ \E resp \in DocResponses :
        /\ docResponse' = resp
        /\ docData' = docDataServer(resp)
        /\ overallStatus' = resp.overallStatus
        /\ docErrors' = docErrorsServer(docData', overallStatus')
        /\ isDocumentValid' = isDocumentValidServer(docData', overallStatus')
        /\ IF ~resp.portrait.field
           THEN /\ caught' = [origin |-> "portrait", message |-> ErrPortraitServer]
                /\ response' = catchResponse(caught')
                /\ disk' = cleanupFiles(disk, cleanupList)
                /\ pc' = "done"
                /\ UNCHANGED matchCalls
           ELSE IF ~Truthy(portraitDataArray(resp.portrait))
           THEN /\ caught' = [origin |-> "TypeError", message |-> ErrBufferFrom]
                /\ response' = catchResponse(caught')
                /\ disk' = cleanupFiles(disk, cleanupList)
                /\ pc' = "done"
                /\ UNCHANGED matchCalls
           ELSE /\ matchCalls' = matchCalls + 1
                /\ pc' = "awaitMatch"
                /\ UNCHANGED <<caught, response, disk>>
    /\ UNCHANGED <<variant, tz, reqNo, files, cleanupList, selfieBase64, now,
                   similarity, docCalls>>

docProcessReturnsPart000 ==
    /\ pc = "awaitDoc"
    /\ variant = "part_000"
    /\ \E resp \in DocResponses :
        /\ docResponse' = resp
        /\ docData' = docDataPart000(resp)
        /\ overallStatus' = resp.overallStatus
        /\ docErrors' = docErrorsPart000(docData', overallStatus', now, tz)
        /\ isDocumentValid' = isDocumentValidPart000(docErrors')
        /\ IF ~Truthy(docFaceBase64Part000(resp.portrait))
           THEN /\ response' = [status |-> 200,
                                body |-> noFaceReport(isDocumentValid', docErrors', docData')]
                /\ disk' = cleanupFiles(disk, cleanupList)
                /\ pc' = "done"
                /\ UNCHANGED matchCalls
           ELSE /\ matchCalls' = matchCalls + 1
                /\ pc' = "awaitMatch"
                /\ UNCHANGED <<response, disk>>
    /\ UNCHANGED <<variant, tz, reqNo, files, cleanupList, selfieBase64, now,
                   similarity, caught, docCalls>>

(***************************************************************************)
(* Face matching and the report                                            *)
(***************************************************************************)
Threshold == 75

\* results[0].similarity * 100
similarityOf(results) == results[1].similarity * 100

\* the threshold made inclusive
isFaceMatchInclusive(sim) == sim >= Threshold * Scale

\* similarity > 75
isFaceMatch(sim) == sim > Threshold * Scale

\* parseFloat(similarity.toFixed(2)), in hundredths of a percent
toFixed2(sim) == (sim * 100 + Scale \div 2) \div Scale

\* one passing check made enough
overallSuccessEither(match, valid) == match \/ valid

\* isFaceMatch && isDocumentValid
overallSuccess(match, valid) == match /\ valid

verificationStatus(match, valid) ==
    IF match /\ valid THEN "VERIFIED" ELSE "REJECTED"

report(sim, valid, status, errors, data) ==
    [success |-> overallSuccess(isFaceMatch(sim), valid),
     verificationStatus |-> verificationStatus(isFaceMatch(sim), valid),
     checks |-> [faceMatch |-> [passed |-> isFaceMatch(sim),
                                similarity |-> toFixed2(sim)],
                 documentValidation |->
                     [passed |-> valid, status |-> status, errors |-> errors]],
     data |-> data]

ErrNoResults(v) ==
    IF v = "server.js" THEN "No match results returned from Face SDK"
    ELSE "No match results"

\* !results || results.length === 0
noResults(m) == ~m.hasResults \/ Len(m.results) = 0

\* await faceSdk.matchApi.match(...) rejects
matchFails ==
    /\ pc = "awaitMatch"
    /\ \E m \in EngineErrorMessages :
        /\ caught' = [origin |-> "faceEngine", message |-> m]
        /\ response' = catchResponse(caught')
    /\ disk' = cleanupFiles(disk, cleanupList)
    /\ pc' = "done"
    /\ UNCHANGED <<variant, tz, reqNo, files, cleanupList, selfieBase64,
                   docResponse, now, docData, overallStatus, docErrors,
                   isDocumentValid, similarity, docCalls, matchCalls>>

matchReturns ==
    /\ pc = "awaitMatch"
    /\ \E m \in MatchResponses :
        IF noResults(m)
        THEN /\ caught' = [origin |-> "noResults", message |-> ErrNoResults(variant)]
             /\ response' = catchResponse(caught')
             /\ UNCHANGED similarity
        ELSE /\ similarity' = similarityOf(m.results)
             /\ response' = [status |-> 200,
                             body |-> report(similarity', isDocumentValid,
                                             overallStatus, docErrors, docData)]
             /\ UNCHANGED caught
    /\ disk' = cleanupFiles(disk, cleanupList)
    /\ pc' = "done"
    /\ UNCHANGED <<variant, tz, reqNo, files, cleanupList, selfieBase64,
                   docResponse, now, docData, overallStatus, docErrors,
                   isDocumentValid, docCalls, matchCalls>>

\* the next request arrives
nextRequest ==
    /\ pc = "done"
    /\ reqNo < MaxRequests
    /\ reqNo' = reqNo + 1
    /\ pc' = "idle"
    /\ files' = NoFiles
    /\ cleanupList' = <<>>
    /\ selfieBase64' = Undefined
    /\ docResponse' = NoDocResponse
    /\ docData' = NoDocData
    /\ overallStatus' = Undefined
    /\ docErrors' = <<>>
    /\ isDocumentValid' = FALSE
    /\ similarity' = NaN
    /\ caught' = NoError
    /\ response' = NoResponse
    /\ docCalls' = 0
    /\ matchCalls' = 0
    /\ UNCHANGED <<variant, tz, now, disk>>

(***************************************************************************)
(* Properties                                                              *)
(***************************************************************************)
Done == pc = "done"

\* the handler has read a document-engine response and run the rules on it
RulesRan == pc \in {"awaitMatch", "done"} /\ "portrait" \in DOMAIN docResponse

\* a verification report was sent (with or without a face-match result)
IsReport == Done /\ response.status = 200

\* the report of a request that reached the face-match step
FullReport == IsReport /\ "similarity" \in DOMAIN response.body.checks.faceMatch

docCheck == response.body.checks.documentValidation
faceCheck == response.body.checks.faceMatch

\* C1: in every report of a request that reached the face-match step,
\* success equals documentValidation.passed AND faceMatch.passed and the
\* status is VERIFIED exactly when success holds, REJECTED otherwise; no
\* report at all has success = true while a sub-check's passed flag is false.
C1_SuccessIsConjunction ==
    /\ FullReport =>
        /\ response.body.success = (docCheck.passed /\ faceCheck.passed)
        /\ response.body.verificationStatus =
               IF response.body.success THEN "VERIFIED" ELSE "REJECTED"
    /\ IsReport =>
        (response.body.success => docCheck.passed /\ faceCheck.passed)

\* a report where one check passed and the other failed, hence REJECTED
C1_Witness ==
    /\ FullReport
    /\ docCheck.passed # faceCheck.passed
    /\ response.body.verificationStatus = "REJECTED"

\* C4 as claimed: isMatch holds iff the similarity the report carries is
\* greater than 75 (so a reported 75.00 never has isMatch = true).
C4_ReportedThresholdStrict ==
    FullReport => (faceCheck.passed <=> faceCheck.similarity > Threshold * 100)

\* C4 as amended: isMatch holds iff the computed, unrounded similarity
\* percentage is greater than 75; hence a reported similarity above 75.00
\* always has isMatch = true and one below 75.00 always has isMatch = false,
\* while a reported 75.00 has isMatch = true when the unrounded value lies
\* strictly between 75 and 75.005.
C4_ThresholdOnComputedSimilarity ==
    FullReport =>
        /\ faceCheck.passed <=> similarity > Threshold * Scale
        /\ faceCheck.similarity > Threshold * 100 => faceCheck.passed
        /\ faceCheck.similarity < Threshold * 100 => ~faceCheck.passed

\* a report carrying similarity 75.00 with isMatch = true
C4_Witness ==
    /\ FullReport
    /\ similarity > Threshold * Scale
    /\ faceCheck.similarity = Threshold * 100
    /\ faceCheck.passed

\* no image data can be extracted for the portrait
NoPortrait(resp) ==
    ~resp.portrait.field
        \/ (resp.portrait.visual = Undefined /\ resp.portrait.rfid = Undefined)

IsPrefix(a, b) == Len(a) <= Len(b) /\ SubSeq(b, 1, Len(a)) = a

\* C2: when no portrait can be extracted, the request ends with a report
\* that is REJECTED with success false, names the missing portrait, carries
\* the document-validation errors found, and the face engine is not called.
C2_MissingPortraitRejected ==
    (Done /\ RulesRan /\ NoPortrait(docResponse)) =>
        /\ matchCalls = 0
        /\ response.status = 200
        /\ response.body.success = FALSE
        /\ response.body.verificationStatus = "REJECTED"
        /\ "error" \in DOMAIN faceCheck
        /\ IsPrefix(docErrors, docCheck.errors)

\* C3: in every report, the document check's passed flag is true iff its
\* errors list is empty.
C3_ValidIffNoErrors ==
    IsReport => (docCheck.passed <=> docCheck.errors = <<>>)

\* a required image is missing or has zero bytes
MissingOrEmpty(fs) ==
    \/ MissingInput(fs)
    \/ fs.passport[1].content = EmptyFile
    \/ fs.selfie[1].content = EmptyFile

\* C5: when a required image is missing or empty, the request fails with the
\* input error and neither engine is called.
C5_EmptyInputFailsFast ==
    (pc \in {"awaitDoc", "awaitMatch", "done"} /\ MissingOrEmpty(files)) =>
        /\ docCalls = 0
        /\ matchCalls = 0
        /\ Done => response.status = 400

\* what a caller can tell a failure's kind from: the status code and the
\* fields of the body (the message is free text)
Kind(r) == <<r.status, DOMAIN r.body>>

\* C6: zero match results end the request in a failure, never in a report,
\* and that failure differs in kind from the one a failed engine call gives.
C6_NoComparableFacesDistinct ==
    (Done /\ caught.origin = "noResults") =>
        /\ response.status # 200
        /\ \A m \in EngineErrorMessages :
            Kind(response) # Kind(catchResponse([origin |-> "faceEngine", message |-> m]))

\* which rule a validation message belongs to
MessageKind(msg) ==
    CASE msg \in {ErrUnknownServer, ErrUnknownPart000} -> "unknownType"
      [] msg \in {ErrStatusServer, ErrStatusPart000} -> "engineError"
      [] msg \in {ErrExpiredPart000(e) : e \in ExpiryValues \ {Null}} -> "expiry"
      [] msg = ErrNoExpiryPart000 -> "expiry"
      [] msg \in {ErrNoTextServer, ErrNoTextPart000} -> "noText"
      [] OTHER -> "other"

\* the current day and the day of a date string, as day numbers
Today == (now + tz) \div 24
Parseable(s) == DateParse(s) # NaN
ExpiryDay(s) == DateParse(s) \div 24

\* the conditions of the four rules on the record the handler holds
UnknownTypeHolds == docData.type = "UNKNOWN"
EngineErrorHolds == overallStatus = "ERROR"
ExpiryHolds ==
    IF Truthy(docResponse.expiry)
    THEN Parseable(docResponse.expiry) /\ ExpiryDay(docResponse.expiry) < Today
    ELSE docData.type = "UNKNOWN"
NoTextHolds == ~Truthy(docData.number) /\ ~Truthy(docData.name)

ExpectedRules ==
    (IF UnknownTypeHolds THEN <<"unknownType">> ELSE <<>>)
        \o (IF EngineErrorHolds THEN <<"engineError">> ELSE <<>>)
        \o (IF ExpiryHolds THEN <<"expiry">> ELSE <<>>)
        \o (IF NoTextHolds THEN <<"noText">> ELSE <<>>)

\* C7: the errors list is exactly the rules whose conditions hold, in the
\* order unknown-type, engine-error, expiry, no-text-extracted.
C7_RuleOrder ==
    RulesRan =>
        [i \in 1..Len(docErrors) |-> MessageKind(docErrors[i])] = ExpectedRules

ExpiredErrors ==
    {i \in 1..Len(docErrors) :
        docErrors[i] \in {ErrExpiredPart000(e) : e \in ExpiryValues \ {Null}}}
NoExpiryErrors == {i \in 1..Len(docErrors) : docErrors[i] = ErrNoExpiryPart000}

\* C8: an expiry date before the current day gives the expired error exactly
\* once and an invalid document; an expiry date of today or later gives no
\* expired error; the absent-expiry error appears only when the expiry is
\* absent and the type is UNKNOWN.
C8_ExpiryRule ==
    RulesRan =>
        /\ (Parseable(docResponse.expiry) /\ ExpiryDay(docResponse.expiry) < Today)
              => (Cardinality(ExpiredErrors) = 1 /\ ~isDocumentValid)
        /\ (Parseable(docResponse.expiry) /\ ExpiryDay(docResponse.expiry) >= Today)
              => ExpiredErrors = {}
        /\ NoExpiryErrors # {}
              => (~Truthy(docResponse.expiry) /\ docData.type = "UNKNOWN")

\* the engine's classification is absent, empty or blank
NoClassification(resp) ==
    resp.DocumentName = Undefined \/ resp.DocumentName \in BlankStrings

\* C9: an absent, empty or blank classification gives documentType UNKNOWN;
\* an UNKNOWN document is invalid, lists the unknown-type error and is never
\* reported VERIFIED.
C9_UnknownType ==
    RulesRan =>
        /\ NoClassification(docResponse) => docData.type = "UNKNOWN"
        /\ docData.type = "UNKNOWN" =>
            /\ ~isDocumentValid
            /\ \E i \in 1..Len(docErrors) : MessageKind(docErrors[i]) = "unknownType"
            /\ IsReport => response.body.verificationStatus # "VERIFIED"

\* C10: once the handler has completed, no file stored by the upload layer,
\* for this request or an earlier one, is left on disk.
C10_AllTempFilesDeleted == Done => disk = {}

Next ==
    \/ upload
    \/ verify
    \/ docProcessFails
    \/ docProcessReturnsServer
    \/ docProcessReturnsPart000
    \/ matchFails
    \/ matchReturns
    \/ nextRequest

Spec == Init /\ [][Next]_vars
====
